---- MODULE Spec2Model ----
(***************************************************************************)
(* The transfer ledger of the SmartBank API (app/complete_main.py) and its *)
(* fraud rules (check_fraud, app/fraud_detection.py: check_fraud_ml).      *)
(*                                                                         *)
(* Each HTTP request is served by one handler with a database session of   *)
(* its own (get_db).  A session keeps the rows it has loaded as objects;   *)
(* an assignment to an attribute changes the object only, and db.commit()  *)
(* writes the changed attributes back as absolute values (UPDATE accounts  *)
(* SET balance = <value>) together with the added rows, in one database    *)
(* transaction.  Every query and every commit is one atomic step of the    *)
(* store; the steps of different handlers interleave freely.               *)
(*                                                                         *)
(* The anomaly scorer is one FraudDetector object of the process           *)
(* (fraud_detection.py: fraud_detector), fitted on its first use.          *)
(*                                                                         *)
(* Money amounts are whole numbers (the code's floats are exact on them);  *)
(* the clock counts minutes.                                               *)
(***************************************************************************)
EXTENDS Integers, Sequences, FiniteSets, TLC

\* ------------------------------------------------------------------ bounds

\* Transfer requests accepted over a run of concurrent handlers (Spec).
MaxTransfers == 3
\* Transfer requests accepted over a run of one handler (SpecSeq).
MaxSeqTransfers == 2
\* Transfer requests accepted over a burst from one user (SpecBurst).
MaxBurst == 5
\* Rows of table transactions a classification is run against (SpecRules).
MaxHistory == 3
\* The clock stops advancing here (minutes).
MaxClock == 120
\* Transfer requests accepted while the other endpoints are in use (SpecApi).
MaxApiTransfers == 2
\* Requests served by the other endpoints that change the store (SpecApi).
MaxOffice == 2
\* Transfer requests accepted over a run of fairly scheduled handlers (SpecLive).
MaxLiveTransfers == 2
\* Large transfers requested of one account in a row (SpecEval).
MaxEvalTransfers == 4
\* SpecScorer: transfer requests
MaxScorerTransfers == 10

\* ------------------------------------------------------- program constants

\* models.Account.daily_limit default.
DefaultDailyLimit == 100000
\* check_fraud rule 2: amount > 10000.
LargeTxnAmount == 10000
\* check_fraud rule 2: recent_large >= 3.
LargeTxnCount == 3
\* check_fraud rule 2: timedelta(hours=1), in minutes.
WindowMinutes == 60
\* check_fraud rule 3: amount > 50000.
LargeWithdrawalFloor == 50000

\* ----------------------------------------------------------------- values

\* Request handlers (worker threads of the server).
Procs == {1, 2}

AccountIds == {1, 2, 3}
Users == {"u1", "u2"}

\* Account.account_number of the account with primary key a (unique).
NumberOf(a) == <<"ACC", a>>
\* An account number no account has.
NoSuchNumber == <<"ACC", 0>>

\* Account.user_id of account a: accounts 1 and 2 belong to u1, 3 to u2.
OwnerOf(a) == IF a = 3 THEN "u2" ELSE "u1"

\* Python's None.
None == <<>>

\* The administrator (create_admin.py) and a customer yet to register.
Admin == "admin"
Newcomer == "u3"

\* get_password_hash and verify_password; a user's password is its name.
PasswordHash(password) == <<"hash", password>>
VerifyPassword(password, hashed) == hashed = PasswordHash(password)

\* A row of table users; users are known by their e-mail address (unique).
UserRow(email, role, kyc) ==
    [email |-> email, hashed_password |-> PasswordHash(email), role |-> role,
     kyc_verified |-> kyc]

\* HTTP outcomes of POST /transactions/transfer.
RespNone == "none"
RespOk == "200"
RespValidation == "422 amount must be greater than 0"
RespNoSource == "404 Source account not found or inactive"
RespNoDest == "404 Destination account not found or inactive"
RespInsufficient == "400 Insufficient funds"
ErrorResponses == {RespValidation, RespNoSource, RespNoDest, RespInsufficient}

\* Reasons returned by check_fraud.
ReasonDailyLimit(limit) == <<"Exceeds daily limit of", limit>>
ReasonMultiple == <<"Multiple large transactions in last hour">>
ReasonLargeWithdrawal == <<"Large withdrawal >80% of balance">>
ReasonNone == <<"">>

VARIABLES
    accounts,      \* table accounts: id -> row
    transactions,  \* table transactions, in insertion order
    audit_logs,    \* table audit_logs, in insertion order
    now,           \* datetime.utcnow(), minutes
    started,       \* transfer requests accepted so far
    pc,            \* handler -> its position in transfer()
    req,           \* handler -> the TransferRequest and current_user
    loc,           \* handler -> the session's objects and locals
    resp,          \* handler -> the response of its last request
    fn_in,         \* SpecRules: the arguments of one fraud classification
    fn_out,        \* SpecRules: what check_fraud and check_fraud_ml returned
    users,         \* table users: id -> row
    loans,         \* table loans, in insertion order
    fraud_detector \* the module's global FraudDetector instance

vars == <<accounts, transactions, audit_logs, now, started, pc, req, loc, resp,
          fn_in, fn_out, users, loans, fraud_detector>>
ledger == <<accounts, transactions, audit_logs>>
calls == <<fn_in, fn_out, fraud_detector>>
\* The tables transfer() neither reads nor writes.
office == <<users, loans>>

NoReq == [from |-> None, to |-> None, amount |-> 0, user |-> None]
NoLoc == [from_id |-> 0, from_balance |-> 0, to_id |-> 0, to_balance |-> 0,
          is_fraud |-> FALSE, reason |-> ReasonNone]

\* ------------------------------------------------------------ check_fraud

\* RecentLarge without the timestamp filter.
RecentLarge_NoWindow(txns, account_id, clock) ==
    Cardinality({i \in DOMAIN txns :
        /\ txns[i].from_account_id = account_id
        /\ txns[i].amount > LargeTxnAmount})

\* Rule 2's query: transactions from the account, timestamp >= one_hour_ago,
\* amount > 10000, counted.
RecentLarge(txns, account_id, clock) ==
    Cardinality({i \in DOMAIN txns :
        /\ txns[i].from_account_id = account_id
        /\ txns[i].timestamp >= clock - WindowMinutes
        /\ txns[i].amount > LargeTxnAmount})

Rule1(amount, daily_limit) == amount > daily_limit
Rule2(txns, account_id, clock) == RecentLarge(txns, account_id, clock) >= LargeTxnCount
\* amount > balance * 0.8 and amount > 50000
Rule3(amount, balance) == 10 * amount > 8 * balance /\ amount > LargeWithdrawalFloor

\* CheckFraud with rule 3 tried first.
CheckFraud_Rule3First(amount, account_id, balance, daily_limit, txns, clock) ==
    IF Rule3(amount, balance)
    THEN [is_fraud |-> TRUE, reason |-> ReasonLargeWithdrawal]
    ELSE IF Rule1(amount, daily_limit)
    THEN [is_fraud |-> TRUE, reason |-> ReasonDailyLimit(daily_limit)]
    ELSE IF Rule2(txns, account_id, clock)
    THEN [is_fraud |-> TRUE, reason |-> ReasonMultiple]
    ELSE [is_fraud |-> FALSE, reason |-> ReasonNone]

\* check_fraud(amount, account, db) -> (is_fraud, reason); balance is the
\* session's value of account.balance.
CheckFraud(amount, account_id, balance, daily_limit, txns, clock) ==
    IF Rule1(amount, daily_limit)
    THEN [is_fraud |-> TRUE, reason |-> ReasonDailyLimit(daily_limit)]
    ELSE IF Rule2(txns, account_id, clock)
    THEN [is_fraud |-> TRUE, reason |-> ReasonMultiple]
    ELSE IF Rule3(amount, balance)
    THEN [is_fraud |-> TRUE, reason |-> ReasonLargeWithdrawal]
    ELSE [is_fraud |-> FALSE, reason |-> ReasonNone]

\* --------------------------------------------------------- check_fraud_ml

\* What lines 148-154 of FraudDetector.predict do on a fitted model: the
\* model's prediction (-1 anomaly, 1 normal), or an exception out of feature
\* extraction or the model.
ScorerOutcomes == {"normal", "anomaly", "raises"}

\* An exception leaving a function.
Raised == [raised |-> TRUE]

ReasonMlLimit == <<"ML detected anomaly: Amount exceeds daily limit">>
ReasonMlWithdrawal == <<"ML detected anomaly: Large withdrawal detected">>
ReasonMlUnusual == <<"ML detected anomaly: Unusual transaction pattern">>
ReasonMlNormal == <<"Transaction appears normal">>
ReasonApproved == <<"Transaction approved">>

\* FraudDetector.__init__: an unfitted forest.
NewFraudDetector == [is_trained |-> FALSE, model |-> None]

\* .limit(100) of the query of an account's transactions.
SampleLimit == 100
\* len(training_data) < 10
MinTrainingSamples == 10
\* range(100) of _generate_synthetic_data
SyntheticSamples == 100

\* The rows of txns that train_on_historical_data turns into training
\* vectors: of every account of the table, its first SampleLimit rows.
TrainingData(accts, txns) ==
    {i \in DOMAIN txns :
        /\ txns[i].from_account_id \in DOMAIN accts
        /\ Cardinality({j \in 1..i : txns[j].from_account_id = txns[i].from_account_id})
                <= SampleLimit}

\* The detector after train_on_historical_data(db). The synthetic vectors are
\* random; the fitted model is described by what it was fitted on.
TrainOnHistoricalData(detector, accts, txns) ==
    IF DOMAIN accts = {}
    THEN detector
    ELSE LET training_data == TrainingData(accts, txns) IN
         [is_trained |-> TRUE,
          model |-> IF Cardinality(training_data) < MinTrainingSamples
                    THEN [kind |-> "synthetic", samples |-> SyntheticSamples]
                    ELSE [kind |-> "historical", samples |-> training_data]]

\* The detector after lines 144-145 of predict.
TrainIfUntrained(detector, accts, txns) ==
    IF ~detector.is_trained THEN TrainOnHistoricalData(detector, accts, txns) ELSE detector

\* self.model.predict(features) on the detector: an unfitted forest raises
\* NotFittedError.
ModelAnswer(detector, scorer) == IF detector.model = None THEN "raises" ELSE scorer

\* FraudDetector.predict(amount, account, db) -> (is_fraud, reason, score);
\* the score, which the reason quotes, is left out.
Predict(amount, balance, daily_limit, scorer) ==
    IF scorer = "raises" THEN Raised
    ELSE IF scorer = "anomaly"
    THEN [is_fraud |-> TRUE,
          reason |-> IF amount > daily_limit THEN ReasonMlLimit
                     ELSE IF 10 * amount > 8 * balance THEN ReasonMlWithdrawal
                     ELSE ReasonMlUnusual]
    ELSE [is_fraud |-> FALSE, reason |-> ReasonMlNormal]

\* CheckFraudMl without the try/except around the scorer.
CheckFraudMl_NoExcept(amount, account_id, balance, daily_limit, txns, clock, scorer) ==
    IF Rule1(amount, daily_limit)
    THEN [is_fraud |-> TRUE, reason |-> ReasonDailyLimit(daily_limit)]
    ELSE IF Rule2(txns, account_id, clock)
    THEN [is_fraud |-> TRUE, reason |-> ReasonMultiple]
    ELSE LET r == Predict(amount, balance, daily_limit, scorer) IN
         IF r = Raised THEN Raised
         ELSE IF r.is_fraud THEN [is_fraud |-> TRUE, reason |-> r.reason]
         ELSE [is_fraud |-> FALSE, reason |-> ReasonApproved]

\* check_fraud_ml(amount, account, db) -> (is_fraud, reason)
CheckFraudMl(amount, account_id, balance, daily_limit, txns, clock, scorer) ==
    IF Rule1(amount, daily_limit)
    THEN [is_fraud |-> TRUE, reason |-> ReasonDailyLimit(daily_limit)]
    ELSE IF Rule2(txns, account_id, clock)
    THEN [is_fraud |-> TRUE, reason |-> ReasonMultiple]
    ELSE LET r == Predict(amount, balance, daily_limit, scorer) IN
         IF r # Raised /\ r.is_fraud
         THEN [is_fraud |-> TRUE, reason |-> r.reason]
         ELSE [is_fraud |-> FALSE, reason |-> ReasonApproved]

\* --------------------------------------------------------------- transfer

\* The account with the given number, or 0 (.first() on no row).
AccountByNumber(number) ==
    IF \E a \in DOMAIN accounts : accounts[a].account_number = number
    THEN CHOOSE a \in DOMAIN accounts : accounts[a].account_number = number
    ELSE 0

Finish(p, response) ==
    /\ pc' = [pc EXCEPT ![p] = "idle"]
    /\ req' = [req EXCEPT ![p] = NoReq]
    /\ loc' = [loc EXCEPT ![p] = NoLoc]
    /\ resp' = [resp EXCEPT ![p] = response]

\* A request arrives; TransferRequest.amount is validated (gt=0) before the
\* handler runs.
Receive(p, froms, tos, amounts, actors, max) ==
    /\ pc[p] = "idle"
    /\ started < max
    /\ \E f \in froms, t \in tos, x \in amounts, u \in actors :
        /\ started' = started + 1
        /\ IF x > 0
           THEN /\ pc' = [pc EXCEPT ![p] = "from"]
                /\ req' = [req EXCEPT ![p] = [from |-> f, to |-> t, amount |-> x, user |-> u]]
                /\ resp' = [resp EXCEPT ![p] = RespNone]
                /\ loc' = loc
           ELSE Finish(p, RespValidation)
    /\ UNCHANGED <<ledger, now, calls, office>>

\* What lines 315-320 answer a request that names this source: the 404, or
\* nothing yet.
SourceResponse(number, user) ==
    LET a == AccountByNumber(number) IN
    IF a = 0 \/ accounts[a].user_id # user \/ ~accounts[a].is_active
    THEN RespNoSource
    ELSE RespNone

\* What lines 322-326 answer a request that names this destination.
DestResponse(number) ==
    LET a == AccountByNumber(number) IN
    IF a = 0 \/ ~accounts[a].is_active THEN RespNoDest ELSE RespNone

\* from_acc = query(Account).filter(account_number == ..., user_id == ...).first()
LoadSource(p) ==
    /\ pc[p] = "from"
    /\ LET a == AccountByNumber(req[p].from) IN
       IF a = 0 \/ accounts[a].user_id # req[p].user \/ ~accounts[a].is_active
       THEN Finish(p, RespNoSource)
       ELSE /\ loc' = [loc EXCEPT ![p].from_id = a, ![p].from_balance = accounts[a].balance]
            /\ pc' = [pc EXCEPT ![p] = "to"]
            /\ UNCHANGED <<req, resp>>
    /\ UNCHANGED <<ledger, now, started, calls, office>>

\* LoadDest run after a debit that is committed at once: a missing destination
\* then fails with the source already charged.
LoadDest_AfterDebit(p) ==
    /\ pc[p] = "to"
    /\ LET a == AccountByNumber(req[p].to) IN
       IF a = 0 \/ ~accounts[a].is_active
       THEN /\ accounts' = [accounts EXCEPT ![loc[p].from_id].balance = @ - req[p].amount]
            /\ Finish(p, RespNoDest)
       ELSE /\ loc' = [loc EXCEPT ![p].to_id = a,
                                  ![p].to_balance = IF a = loc[p].from_id
                                                    THEN loc[p].from_balance
                                                    ELSE accounts[a].balance]
            /\ pc' = [pc EXCEPT ![p] = "funds"]
            /\ UNCHANGED <<req, resp, accounts>>
    /\ UNCHANGED <<transactions, audit_logs, now, started, calls, office>>

\* to_acc = query(Account).filter(account_number == ...).first(); a row the
\* session already holds is returned as the object loaded before.
LoadDest(p) ==
    /\ pc[p] = "to"
    /\ LET a == AccountByNumber(req[p].to) IN
       IF a = 0 \/ ~accounts[a].is_active
       THEN Finish(p, RespNoDest)
       ELSE /\ loc' = [loc EXCEPT ![p].to_id = a,
                                  ![p].to_balance = IF a = loc[p].from_id
                                                    THEN loc[p].from_balance
                                                    ELSE accounts[a].balance]
            /\ pc' = [pc EXCEPT ![p] = "funds"]
            /\ UNCHANGED <<req, resp>>
    /\ UNCHANGED <<ledger, now, started, calls, office>>

\* CheckFunds with <= for <: a transfer of the whole balance is rejected.
CheckFunds_RejectsEqual(p) ==
    /\ pc[p] = "funds"
    /\ IF loc[p].from_balance <= req[p].amount
       THEN Finish(p, RespInsufficient)
       ELSE /\ pc' = [pc EXCEPT ![p] = "fraud"]
            /\ UNCHANGED <<req, loc, resp>>
    /\ UNCHANGED <<ledger, now, started, calls, office>>

\* CheckFunds writing a TRANSFER audit entry for the refused attempt.
CheckFunds_AuditsRefusal(p) ==
    /\ pc[p] = "funds"
    /\ IF loc[p].from_balance < req[p].amount
       THEN /\ audit_logs' = Append(audit_logs,
                    [id |-> Len(audit_logs) + 1, user_id |-> req[p].user,
                     action |-> "TRANSFER", details |-> <<"refused">>, timestamp |-> now])
            /\ Finish(p, RespInsufficient)
       ELSE /\ pc' = [pc EXCEPT ![p] = "fraud"]
            /\ UNCHANGED <<req, loc, resp, audit_logs>>
    /\ UNCHANGED <<accounts, transactions, now, started, calls, office>>

\* if from_acc.balance < transfer.amount: raise 400
CheckFunds(p) ==
    /\ pc[p] = "funds"
    /\ IF loc[p].from_balance < req[p].amount
       THEN Finish(p, RespInsufficient)
       ELSE /\ pc' = [pc EXCEPT ![p] = "fraud"]
            /\ UNCHANGED <<req, loc, resp>>
    /\ UNCHANGED <<ledger, now, started, calls, office>>

\* FraudCheck run after the mutation: on the debited balance and on a history
\* that already holds the transfer.
FraudCheck_AfterMutation(p) ==
    /\ pc[p] = "fraud"
    /\ LET v == CheckFraud(req[p].amount, loc[p].from_id,
                           loc[p].from_balance - req[p].amount,
                           accounts[loc[p].from_id].daily_limit,
                           Append(transactions,
                                  [from_account_id |-> loc[p].from_id,
                                   amount |-> req[p].amount, timestamp |-> now]),
                           now) IN
       loc' = [loc EXCEPT ![p].is_fraud = v.is_fraud, ![p].reason = v.reason]
    /\ pc' = [pc EXCEPT ![p] = "execute"]
    /\ UNCHANGED <<ledger, now, started, req, resp, calls, office>>

\* is_fraud, reason = check_fraud(transfer.amount, from_acc, db)
FraudCheck(p) ==
    /\ pc[p] = "fraud"
    /\ LET v == CheckFraud(req[p].amount, loc[p].from_id, loc[p].from_balance,
                           accounts[loc[p].from_id].daily_limit, transactions, now) IN
       loc' = [loc EXCEPT ![p].is_fraud = v.is_fraud, ![p].reason = v.reason]
    /\ pc' = [pc EXCEPT ![p] = "execute"]
    /\ UNCHANGED <<ledger, now, started, req, resp, calls, office>>

\* NewFromBalance with the source a row of its own even when the request
\* names one account twice: the credit does not reach it.
NewFromBalance_DebitOnly(p) == loc[p].from_balance - req[p].amount

\* from_acc.balance -= amount; to_acc.balance += amount, on the session's
\* objects (one object when both are the same row).
NewFromBalance(p) ==
    IF loc[p].to_id = loc[p].from_id
    THEN loc[p].from_balance - req[p].amount + req[p].amount
    ELSE loc[p].from_balance - req[p].amount

\* NewToBalance without the credit.
NewToBalance_NoCredit(p) ==
    IF loc[p].to_id = loc[p].from_id
    THEN NewFromBalance(p)
    ELSE loc[p].to_balance

NewToBalance(p) ==
    IF loc[p].to_id = loc[p].from_id
    THEN NewFromBalance(p)
    ELSE loc[p].to_balance + req[p].amount

\* NewTransaction recording the balance the source had before the debit.
NewTransaction_BalanceBefore(p) ==
    [id |-> Len(transactions) + 1,
     transaction_type |-> "transfer",
     from_account_id |-> loc[p].from_id,
     to_account_id |-> loc[p].to_id,
     amount |-> req[p].amount,
     balance_after |-> loc[p].from_balance,
     is_flagged |-> loc[p].is_fraud,
     flag_reason |-> IF loc[p].is_fraud THEN loc[p].reason ELSE None,
     timestamp |-> now]

\* models.Transaction(...) of transfer().
NewTransaction(p) ==
    [id |-> Len(transactions) + 1,
     transaction_type |-> "transfer",
     from_account_id |-> loc[p].from_id,
     to_account_id |-> loc[p].to_id,
     amount |-> req[p].amount,
     balance_after |-> NewFromBalance(p),
     is_flagged |-> loc[p].is_fraud,
     flag_reason |-> IF loc[p].is_fraud THEN loc[p].reason ELSE None,
     timestamp |-> now]

\* CommittedAccounts as relative updates (SET balance = balance - amount) of
\* the rows as they are at commit time.
CommittedAccounts_Relative(p) ==
    [a \in DOMAIN accounts |->
        IF loc[p].to_id = loc[p].from_id THEN accounts[a]
        ELSE IF a = loc[p].from_id THEN [accounts[a] EXCEPT !.balance = @ - req[p].amount]
        ELSE IF a = loc[p].to_id THEN [accounts[a] EXCEPT !.balance = @ + req[p].amount]
        ELSE accounts[a]]

\* CommittedAccounts with the two accounts taken for each other: the source
\* is credited and the destination debited.
CommittedAccounts_Swapped(p) ==
    [a \in DOMAIN accounts |->
        IF loc[p].to_id = loc[p].from_id THEN accounts[a]
        ELSE IF a = loc[p].from_id
        THEN [accounts[a] EXCEPT !.balance = loc[p].from_balance + req[p].amount]
        ELSE IF a = loc[p].to_id
        THEN [accounts[a] EXCEPT !.balance = loc[p].to_balance - req[p].amount]
        ELSE accounts[a]]

\* The rows db.commit() writes: the changed balances as the session holds them.
CommittedAccounts(p) ==
    [a \in DOMAIN accounts |->
        IF a = loc[p].from_id THEN [accounts[a] EXCEPT !.balance = NewFromBalance(p)]
        ELSE IF a = loc[p].to_id THEN [accounts[a] EXCEPT !.balance = NewToBalance(p)]
        ELSE accounts[a]]

\* Execute under a deny policy: a flagged transfer is refused.
Execute_DeniesFlagged(p) ==
    /\ pc[p] = "execute"
    /\ IF loc[p].is_fraud
       THEN /\ Finish(p, "403 Transfer flagged")
            /\ UNCHANGED <<accounts, transactions>>
       ELSE /\ accounts' = CommittedAccounts(p)
            /\ transactions' = Append(transactions, NewTransaction(p))
            /\ pc' = [pc EXCEPT ![p] = "audit"]
            /\ UNCHANGED <<req, loc, resp>>
    /\ UNCHANGED <<audit_logs, now, started, calls, office>>

\* Execute waiting, without a bound, for every other session that has loaded
\* one of its two rows to end.
Execute_WaitsForPeers(p) ==
    /\ pc[p] = "execute"
    /\ \A q \in Procs \ {p} :
            pc[q] \in {"to", "funds", "fraud", "execute"}
                => loc[q].from_id \notin {loc[p].from_id, loc[p].to_id}
    /\ accounts' = CommittedAccounts(p)
    /\ transactions' = Append(transactions, NewTransaction(p))
    /\ pc' = [pc EXCEPT ![p] = "audit"]
    /\ UNCHANGED <<audit_logs, now, started, req, loc, resp, calls, office>>

\* Lines 334-350: the mutation, db.add(transaction), db.commit().
Execute(p) ==
    /\ pc[p] = "execute"
    /\ accounts' = CommittedAccounts(p)
    /\ transactions' = Append(transactions, NewTransaction(p))
    /\ pc' = [pc EXCEPT ![p] = "audit"]
    /\ UNCHANGED <<audit_logs, now, started, req, loc, resp, calls, office>>

\* models.AuditLog(user_id=..., action=..., details=...)
NewAuditLog(user_id, action, details) ==
    [id |-> Len(audit_logs) + 1, user_id |-> user_id, action |-> action,
     details |-> details, timestamp |-> now]

\* CreateAuditLog keeping one entry per user and action: a later entry takes
\* the place of the earlier one.
CreateAuditLog_Upsert(user_id, action, details) ==
    IF \E i \in DOMAIN audit_logs :
            audit_logs[i].user_id = user_id /\ audit_logs[i].action = action
    THEN LET i == CHOOSE j \in DOMAIN audit_logs :
                    audit_logs[j].user_id = user_id /\ audit_logs[j].action = action IN
         audit_logs' = [audit_logs EXCEPT ![i].details = details, ![i].timestamp = now]
    ELSE audit_logs' = Append(audit_logs, NewAuditLog(user_id, action, details))

\* create_audit_log(db, user_id, action, details): db.add(log); db.commit()
CreateAuditLog(user_id, action, details) ==
    audit_logs' = Append(audit_logs, NewAuditLog(user_id, action, details))

\* Lines 352-357: the audit entry in a commit of its own, then the response.
Audit(p) ==
    /\ pc[p] = "audit"
    /\ CreateAuditLog(req[p].user, "TRANSFER", <<req[p].amount, req[p].from, req[p].to>>)
    /\ Finish(p, RespOk)
    /\ UNCHANGED <<accounts, transactions, now, started, calls, office>>

\* Time passes, half an hour at a time.
Tick ==
    /\ now + 30 <= MaxClock
    /\ now' = now + 30
    /\ UNCHANGED <<ledger, started, pc, req, loc, resp, calls, office>>

\* ----------------------------------------------------- the other endpoints

\* Each of these handlers commits its change and then its audit entry, in two
\* commits one after the other; the two are taken as one step.  A request
\* that is refused (400, 401, 403, 404) changes nothing.  The read endpoints
\* (GET /auth/me, /accounts, /accounts/{n}, /transactions/history/{n},
\* /loans, /admin/users, /admin/transactions/flagged) issue queries only.

\* Requests of these endpoints that changed the store so far.
OfficeOps == Cardinality({i \in DOMAIN audit_logs : audit_logs[i].action # "TRANSFER"})

\* POST /auth/register
register(email) ==
    /\ OfficeOps < MaxOffice
    /\ IF email \in DOMAIN users
       THEN UNCHANGED <<users, audit_logs>>
       ELSE /\ users' = [u \in DOMAIN users \cup {email} |->
                            IF u = email THEN UserRow(email, "customer", FALSE) ELSE users[u]]
            /\ CreateAuditLog(email, "USER_REGISTERED", <<"registered", email>>)
    /\ UNCHANGED <<accounts, transactions, loans, now, started, pc, req, loc, resp, calls>>

\* POST /auth/login
login(email, password) ==
    /\ OfficeOps < MaxOffice
    /\ IF email \notin DOMAIN users \/ ~VerifyPassword(password, users[email].hashed_password)
       THEN UNCHANGED audit_logs
       ELSE CreateAuditLog(email, "LOGIN", <<"User logged in">>)
    /\ UNCHANGED <<accounts, transactions, office, now, started, pc, req, loc, resp, calls>>

\* POST /auth/kyc-upload
upload_kyc(current_user) ==
    /\ OfficeOps < MaxOffice
    /\ current_user \in DOMAIN users
    /\ users' = [users EXCEPT ![current_user].kyc_verified = TRUE]
    /\ CreateAuditLog(current_user, "KYC_UPLOADED", <<"KYC document uploaded">>)
    /\ UNCHANGED <<accounts, transactions, loans, now, started, pc, req, loc, resp, calls>>

\* create_account paying the deposit into the account the user already has
\* when there is one.
create_account_TopsUp(current_user, initial_deposit) ==
    /\ OfficeOps < MaxOffice
    /\ current_user \in DOMAIN users
    /\ IF \E a \in DOMAIN accounts : accounts[a].user_id = current_user
       THEN LET a == CHOOSE b \in DOMAIN accounts : accounts[b].user_id = current_user IN
            accounts' = [accounts EXCEPT ![a].balance = @ + initial_deposit]
       ELSE LET id == Cardinality(DOMAIN accounts) + 1 IN
            accounts' = [a \in DOMAIN accounts \cup {id} |->
                IF a = id
                THEN [account_number |-> NumberOf(id), user_id |-> current_user,
                      balance |-> initial_deposit, is_active |-> TRUE,
                      daily_limit |-> DefaultDailyLimit]
                ELSE accounts[a]]
    /\ CreateAuditLog(current_user, "ACCOUNT_CREATED", <<"created", current_user>>)
    /\ UNCHANGED <<transactions, office, now, started, pc, req, loc, resp, calls>>

\* POST /accounts; the number drawn is one no account has yet.
create_account(current_user, initial_deposit) ==
    /\ OfficeOps < MaxOffice
    /\ current_user \in DOMAIN users
    /\ LET id == Cardinality(DOMAIN accounts) + 1 IN
        /\ accounts' = [a \in DOMAIN accounts \cup {id} |->
                IF a = id
                THEN [account_number |-> NumberOf(id), user_id |-> current_user,
                      balance |-> initial_deposit, is_active |-> TRUE,
                      daily_limit |-> DefaultDailyLimit]
                ELSE accounts[a]]
        /\ CreateAuditLog(current_user, "ACCOUNT_CREATED", <<"created", NumberOf(id)>>)
    /\ UNCHANGED <<transactions, office, now, started, pc, req, loc, resp, calls>>

\* POST /loans/apply
apply_loan(current_user, amount, tenure_months) ==
    /\ OfficeOps < MaxOffice
    /\ current_user \in DOMAIN users
    /\ loans' = Append(loans,
            [id |-> Len(loans) + 1, user_id |-> current_user, amount |-> amount,
             tenure_months |-> tenure_months, interest_rate |-> <<8, 5>>, emi |-> None,
             status |-> "pending", approved_at |-> None, approved_by |-> None])
    /\ CreateAuditLog(current_user, "LOAN_APPLIED", <<"loan for", amount>>)
    /\ UNCHANGED <<accounts, transactions, users, now, started, pc, req, loc, resp, calls>>

\* calculate_emi(principal, annual_rate, tenure_months), unevaluated.
calculate_emi(principal, annual_rate, tenure_months) ==
    <<"emi", principal, annual_rate, tenure_months>>

\* POST /admin/loans/{loan_id}/approve
approve_loan(current_user, loan_id, approved, interest_rate) ==
    /\ OfficeOps < MaxOffice
    /\ current_user \in DOMAIN users
    /\ IF users[current_user].role # "admin" \/ loan_id \notin DOMAIN loans
       THEN UNCHANGED <<loans, audit_logs>>
       ELSE /\ loans' = IF approved
                        THEN [loans EXCEPT ![loan_id].status = "approved",
                                           ![loan_id].interest_rate = interest_rate,
                                           ![loan_id].emi = calculate_emi(loans[loan_id].amount,
                                                interest_rate, loans[loan_id].tenure_months),
                                           ![loan_id].approved_at = now,
                                           ![loan_id].approved_by = current_user]
                        ELSE [loans EXCEPT ![loan_id].status = "rejected"]
            /\ CreateAuditLog(current_user,
                    IF approved THEN "LOAN_APPROVED" ELSE "LOAN_REJECTED", <<"Loan ID", loan_id>>)
    /\ UNCHANGED <<accounts, transactions, users, now, started, pc, req, loc, resp, calls>>

\* ---------------------------------------------------------- specifications

AccountRow(a, balance, active) ==
    [account_number |-> NumberOf(a), user_id |-> OwnerOf(a), balance |-> balance,
     is_active |-> active, daily_limit |-> DefaultDailyLimit]

NoCall == [called |-> FALSE]

\* No classification outside a transfer (every specification but SpecRules).
InitCalls ==
    /\ fn_in = NoCall
    /\ fn_out = [rules |-> NoCall, ml |-> NoCall, predict |-> NoCall]
    /\ fraud_detector = NewFraudDetector

\* The customers that own the accounts, and the administrator.
InitialUsers ==
    [u \in Users \cup {Admin} |->
        IF u = Admin THEN UserRow(u, "admin", TRUE) ELSE UserRow(u, "customer", FALSE)]

InitHandlers ==
    /\ users = InitialUsers
    /\ loans = <<>>
    /\ transactions = <<>>
    /\ audit_logs = <<>>
    /\ now = 0
    /\ started = 0
    /\ pc = [p \in Procs |-> "idle"]
    /\ req = [p \in Procs |-> NoReq]
    /\ loc = [p \in Procs |-> NoLoc]
    /\ resp = [p \in Procs |-> RespNone]

Handler(p) ==
    \/ LoadSource(p)
    \/ LoadDest(p)
    \/ CheckFunds(p)
    \/ FraudCheck(p)
    \/ Execute(p)
    \/ Audit(p)

\* Spec: concurrent handlers moving 1 or 2 units between accounts 1 and 2.
InitialBalance(a) == IF a = 1 THEN 3 ELSE IF a = 2 THEN 1 ELSE 0

Init ==
    /\ InitHandlers
    /\ InitCalls
    /\ accounts = [a \in AccountIds |-> AccountRow(a, InitialBalance(a), TRUE)]

Next ==
    \/ \E p \in Procs : Receive(p, {NumberOf(1), NumberOf(2)}, {NumberOf(1), NumberOf(2)},
                                {1, 2}, {"u1"}, MaxTransfers)
    \/ \E p \in Procs : Handler(p)

Spec == Init /\ [][Next]_vars

\* SpecLive: Spec with every handler scheduled fairly. A handler is a worker
\* thread of its own; no statement of transfer() waits for another handler,
\* so a handler that has a next step takes it.
NextLive ==
    \/ \E p \in Procs : Receive(p, {NumberOf(1), NumberOf(2)}, {NumberOf(1), NumberOf(2)},
                                {1, 2}, {"u1"}, MaxLiveTransfers)
    \/ \E p \in Procs : Handler(p)

SpecLive == Init /\ [][NextLive]_vars /\ \A p \in Procs : WF_vars(Handler(p))

\* SpecSeq: one handler, requests served one at a time; every outcome of
\* transfer() is reachable.
InitSeq ==
    /\ InitHandlers
    /\ InitCalls
    /\ \E b \in {100, 10000, 70000, 100000, 200000}, active \in BOOLEAN :
        accounts = [a \in AccountIds |->
            IF a = 1 THEN AccountRow(a, b, TRUE)
            ELSE IF a = 2 THEN AccountRow(a, 1000, TRUE)
            ELSE AccountRow(a, 500, active)]

NextSeq ==
    \/ Receive(1, {NoSuchNumber, NumberOf(1), NumberOf(3)},
                   {NoSuchNumber, NumberOf(1), NumberOf(2), NumberOf(3)},
                   {0, 100, 2000, 5000, 60000, 150000}, Users, MaxSeqTransfers)
    \/ Handler(1)

SpecSeq == InitSeq /\ [][NextSeq]_vars

\* SpecBurst: one user issuing transfers in quick succession while time passes.
InitBurst ==
    /\ InitHandlers
    /\ InitCalls
    /\ accounts = [a \in AccountIds |-> AccountRow(a, 100000, TRUE)]

NextBurst ==
    \/ Receive(1, {NumberOf(1)}, {NumberOf(2)}, {5000, 15000}, {"u1"}, MaxBurst)
    \/ Handler(1)
    \/ Tick

SpecBurst == InitBurst /\ [][NextBurst]_vars

\* SpecEval: one user moving large amounts out of one account, one transfer
\* after the other.
NextEval ==
    \/ Receive(1, {NumberOf(1)}, {NumberOf(2)}, {15000, 55000}, {"u1"}, MaxEvalTransfers)
    \/ Handler(1)

SpecEval == InitBurst /\ [][NextEval]_vars

\* SpecApi: transfers of one handler among requests to the other endpoints.
InitApi ==
    /\ InitHandlers
    /\ InitCalls
    /\ accounts = [a \in AccountIds |-> AccountRow(a, 500, TRUE)]

NextApi ==
    \/ Receive(1, {NumberOf(1), NumberOf(4)}, {NumberOf(2), NumberOf(4), NumberOf(5)},
                   {200}, {"u1"}, MaxApiTransfers)
    \/ Handler(1)
    \/ \E email \in {"u2", Newcomer} : register(email)
    \/ \E email \in {"u1", Newcomer}, password \in {"u1", "guess"} : login(email, password)
    \/ upload_kyc("u1")
    \/ \E initial_deposit \in {0, 500} : create_account("u1", initial_deposit)
    \/ apply_loan("u2", 1000, 12)
    \/ \E current_user \in {"u1", Admin}, loan_id \in {1, 2}, approved \in BOOLEAN :
            approve_loan(current_user, loan_id, approved, <<8, 5>>)

SpecApi == InitApi /\ [][NextApi]_vars

\* SpecRules: check_fraud and check_fraud_ml applied to one set of arguments.
\* The rows of table transactions carry the columns the rules read.
HistoryRows ==
    [from_account_id : {1, 2}, amount : {LargeTxnAmount, 15000}, timestamp : {0, 60}]

RECURSIVE Histories(_)
Histories(n) ==
    IF n = 0 THEN {<<>>}
    ELSE LET shorter == Histories(n - 1) IN
         shorter \cup {Append(h, r) : h \in {g \in shorter : Len(g) = n - 1}, r \in HistoryRows}

\* Rows are inserted with the time of their insertion.
InOrder(h) == \A i \in 1..(Len(h) - 1) : h[i].timestamp <= h[i + 1].timestamp

InitRules ==
    /\ InitHandlers
    /\ accounts = [a \in AccountIds |-> AccountRow(a, 0, TRUE)]
    /\ fn_out = [rules |-> NoCall, ml |-> NoCall, predict |-> NoCall]
    /\ fraud_detector = NewFraudDetector
    /\ \E amount \in {5000, 60000, 150000}, balance \in {60000, 75000, 200000},
          h \in {g \in Histories(MaxHistory) : InOrder(g)}, clock \in {60, 120},
          scorer \in ScorerOutcomes :
        fn_in = [called |-> TRUE, amount |-> amount, account_id |-> 1, balance |-> balance,
                 daily_limit |-> DefaultDailyLimit, txns |-> h, clock |-> clock,
                 scorer |-> scorer]

CallCheckFraud ==
    /\ fn_out.rules = NoCall
    /\ fn_out' = [fn_out EXCEPT !.rules =
            CheckFraud(fn_in.amount, fn_in.account_id, fn_in.balance, fn_in.daily_limit,
                       fn_in.txns, fn_in.clock)]
    /\ UNCHANGED <<ledger, now, started, pc, req, loc, resp, fn_in, office, fraud_detector>>

\* check_fraud_ml reaches fraud_detector.predict when neither of its rules
\* matches; the table of transactions it reads is fn_in.txns.
CallCheckFraudMl ==
    /\ fn_out.ml = NoCall
    /\ LET detector ==
            IF Rule1(fn_in.amount, fn_in.daily_limit)
                    \/ Rule2(fn_in.txns, fn_in.account_id, fn_in.clock)
            THEN fraud_detector
            ELSE TrainIfUntrained(fraud_detector, accounts, fn_in.txns) IN
        /\ fraud_detector' = detector
        /\ fn_out' = [fn_out EXCEPT !.ml =
                CheckFraudMl(fn_in.amount, fn_in.account_id, fn_in.balance, fn_in.daily_limit,
                             fn_in.txns, fn_in.clock, ModelAnswer(detector, fn_in.scorer))]
    /\ UNCHANGED <<ledger, now, started, pc, req, loc, resp, fn_in, office>>

NextRules == CallCheckFraud \/ CallCheckFraudMl

SpecRules == InitRules /\ [][NextRules]_vars

\* SpecScorer: score requests to the global detector while the store grows
\* from the empty database: accounts are opened and transfers recorded.

\* fraud_detector.predict(amount, account, db) on the store as it is; the
\* account is a row of the table, or an object of the caller's when the table
\* has none.
CallPredict ==
    \E amount \in {100, 90000}, scorer \in ScorerOutcomes :
        LET account == IF 1 \in DOMAIN accounts THEN accounts[1] ELSE AccountRow(1, 500, TRUE)
            detector == TrainIfUntrained(fraud_detector, accounts, transactions) IN
        /\ fn_in' = [called |-> TRUE, amount |-> amount, account_id |-> 1,
                     balance |-> account.balance, daily_limit |-> account.daily_limit,
                     txns |-> transactions, clock |-> now, scorer |-> scorer]
        /\ fraud_detector' = detector
        /\ fn_out' = [fn_out EXCEPT !.predict =
                Predict(amount, account.balance, account.daily_limit,
                        ModelAnswer(detector, scorer))]
        /\ UNCHANGED <<ledger, now, started, pc, req, loc, resp, office>>

InitScorer ==
    /\ InitHandlers
    /\ InitCalls
    /\ accounts = <<>>

NextScorer ==
    \/ create_account("u1", 500)
    \/ Receive(1, {NumberOf(1)}, {NumberOf(2)}, {10}, {"u1"}, MaxScorerTransfers)
    \/ Handler(1)
    \/ CallPredict

SpecScorer == InitScorer /\ [][NextScorer]_vars

\* -------------------------------------------------------------- properties

RECURSIVE SumBalances(_, _)
SumBalances(rows, ids) ==
    IF ids = {} THEN 0
    ELSE LET a == CHOOSE x \in ids : TRUE IN rows[a].balance + SumBalances(rows, ids \ {a})

TotalBalance == SumBalances(accounts, AccountIds)

\* Handler p takes the step that leaves position at.
Leaves(p, at) == pc[p] = at /\ pc'[p] # at

\* The row of the source account handler p resolved, as the store holds it.
SourceRow(p) == accounts[loc[p].from_id]

\* The row of the destination account handler p resolved.
DestRow(p) == accounts[loc[p].to_id]

\* Handler p answers its request with an error in this step.
FailsNow(p) ==
    /\ pc'[p] = "idle"
    /\ resp'[p] \in ErrorResponses
    /\ pc[p] # "idle" \/ started' = started + 1

\* The audit entries of transfers.
TransferAudits == {i \in DOMAIN audit_logs : audit_logs[i].action = "TRANSFER"}

\* C1: with transfers served one at a time, the commit of a transfer leaves
\* the sum of its source and destination balances as it was, and every step
\* leaves the total of all balances as it was.
C1_Conservation ==
    [][/\ TotalBalance' = TotalBalance
       /\ \A p \in Procs : Leaves(p, "execute") =>
            accounts'[loc[p].from_id].balance + accounts'[loc[p].to_id].balance
                = accounts[loc[p].from_id].balance + accounts[loc[p].to_id].balance]_vars

\* A transfer between two distinct accounts has been committed.
C1_Witness ==
    \E i \in DOMAIN transactions :
        /\ transactions[i].from_account_id # transactions[i].to_account_id
        /\ accounts[transactions[i].from_account_id].balance = transactions[i].balance_after

\* C2: no account's balance is ever negative, whatever the interleaving of
\* concurrent transfers.
C2_NonNegative == \A a \in AccountIds : accounts[a].balance >= 0

\* Two handlers passed the funds check on the same source; one has committed,
\* and what is left no longer covers the amount the other is about to move.
C2_Witness ==
    \E p, q \in Procs :
        /\ p # q
        /\ pc[p] = "execute"
        /\ pc[q] = "audit"
        /\ loc[p].from_id = loc[q].from_id
        /\ loc[p].to_id # loc[p].from_id
        /\ req[p].amount > SourceRow(p).balance

\* Every handler is idle and every recorded transfer moved 1 unit from
\* account 1 to account 2.
C3_UnitTransfersDone ==
    /\ \A p \in Procs : pc[p] = "idle"
    /\ \A i \in DOMAIN transactions :
        /\ transactions[i].from_account_id = 1
        /\ transactions[i].to_account_id = 2
        /\ transactions[i].amount = 1

\* C3: when N transfers of 1 unit from account 1 to account 2 have run,
\* concurrently or not, and all have ended, account 1 holds N less and
\* account 2 holds N more than at the start.
C3_NoLostUpdate ==
    C3_UnitTransfersDone =>
        /\ accounts[1].balance = InitialBalance(1) - Len(transactions)
        /\ accounts[2].balance = InitialBalance(2) + Len(transactions)

\* C4: what a reader of the store sees of a transfer is all or nothing: as
\* many TRANSFER audit entries as Transaction records, and balances that
\* differ from the initial ones only when both exist.
C4_AtomicUnit ==
    /\ Cardinality(TransferAudits) = Len(transactions)
    /\ (\E a \in AccountIds : accounts[a].balance # InitialBalance(a))
            => transactions # <<>> /\ audit_logs # <<>>

\* The funds check of a request whose accounts resolved: more than the
\* source balance is refused with "Insufficient funds" and changes nothing;
\* exactly the source balance is let through.
C5_FundsCheck(p) ==
    Leaves(p, "funds") =>
        /\ req[p].amount > SourceRow(p).balance =>
                resp'[p] = RespInsufficient /\ pc'[p] = "idle" /\ UNCHANGED ledger
        /\ req[p].amount <= SourceRow(p).balance =>
                resp'[p] # RespInsufficient /\ pc'[p] = "fraud"

\* C5 as stated: a transfer of more than the source balance fails with
\* InsufficientFunds and changes no balance; a transfer of exactly the
\* source balance is not rejected and leaves the source at 0.
C5_Original ==
    [][\A p \in Procs :
        /\ C5_FundsCheck(p)
        /\ (Leaves(p, "execute") /\ req[p].amount = SourceRow(p).balance)
                => accounts'[loc[p].from_id].balance = 0]_vars

\* C5 amended: as C5_Original, the source ending at 0 only when the
\* destination is another account (a transfer from an account to itself
\* leaves its balance as it was).
C5_InsufficientFunds ==
    [][\A p \in Procs :
        /\ C5_FundsCheck(p)
        /\ (Leaves(p, "execute") /\ req[p].amount = SourceRow(p).balance)
                => accounts'[loc[p].from_id].balance =
                        IF loc[p].to_id = loc[p].from_id THEN SourceRow(p).balance ELSE 0]_vars

\* A transfer of the whole balance emptied the source, and the next transfer
\* from it was refused for funds.
C5_Witness ==
    /\ Len(transactions) = 1
    /\ transactions[1].from_account_id # transactions[1].to_account_id
    /\ transactions[1].balance_after = 0
    /\ accounts[transactions[1].from_account_id].balance = 0
    /\ resp[1] = RespInsufficient

\* C6: a transfer that ends in an error has changed nothing: the step that
\* raises the error leaves accounts, transactions and audit log as they
\* were and is taken before the mutation; no step of a handler before its
\* commit changes them; and once past the commit a request ends in 200.
C6_FailureLeavesLedger ==
    [][\A p \in Procs :
        /\ FailsNow(p) => UNCHANGED ledger /\ pc[p] \in {"idle", "from", "to", "funds"}
        /\ (pc[p] \in {"idle", "from", "to", "funds", "fraud"}
                /\ \A q \in Procs \ {p} : pc'[q] = pc[q]) => UNCHANGED ledger
        /\ pc[p] \in {"execute", "audit"} => pc'[p] \in {"execute", "audit", "idle"}
        /\ Leaves(p, "audit") => resp'[p] = RespOk]_vars

\* A request failed on its destination after an earlier transfer succeeded.
C6_Witness ==
    /\ resp[1] = RespNoDest
    /\ Len(transactions) = 1
    /\ Len(audit_logs) = 1

\* C7: the verdict never stops a transfer. After the funds check the handler
\* always has a next step; the fraud check leads to the commit whatever the
\* verdict; the commit debits and credits the amount and records the
\* transaction with the verdict's flag; the request ends in 200; and a
\* recorded transfer above the source's daily limit is flagged with the
\* daily-limit reason.
C7_FlagNeverBlocks ==
    /\ [](\A p \in Procs : pc[p] \in {"fraud", "execute", "audit"} => ENABLED Handler(p))
    /\ [](\A i \in DOMAIN transactions :
            LET t == transactions[i] limit == accounts[t.from_account_id].daily_limit IN
            t.amount > limit => t.is_flagged /\ t.flag_reason = ReasonDailyLimit(limit))
    /\ [][\A p \in Procs :
            /\ Leaves(p, "fraud") => pc'[p] = "execute"
            /\ Leaves(p, "execute") =>
                /\ pc'[p] = "audit"
                /\ Len(transactions') = Len(transactions) + 1
                /\ transactions'[Len(transactions')].is_flagged = loc[p].is_fraud
                /\ transactions'[Len(transactions')].amount = req[p].amount
                /\ loc[p].to_id # loc[p].from_id =>
                    /\ accounts'[loc[p].from_id].balance = SourceRow(p).balance - req[p].amount
                    /\ accounts'[loc[p].to_id].balance = DestRow(p).balance + req[p].amount
            /\ Leaves(p, "audit") => resp'[p] = RespOk]_vars

\* A transfer of 150000 from a balance of 200000 completed, flagged for the
\* daily limit, leaving 50000.
C7_Witness ==
    /\ resp[1] = RespOk
    /\ \E i \in DOMAIN transactions :
        /\ transactions[i].amount = 150000
        /\ transactions[i].is_flagged
        /\ transactions[i].flag_reason = ReasonDailyLimit(DefaultDailyLimit)
        /\ transactions[i].from_account_id # transactions[i].to_account_id
        /\ accounts[transactions[i].from_account_id].balance = 50000

\* The three rules on the arguments of the classification under way, in the
\* terms of the specification.
LimitRuleMatches == fn_in.amount > fn_in.daily_limit
BurstRuleMatches ==
    Cardinality({i \in DOMAIN fn_in.txns :
        /\ fn_in.txns[i].from_account_id = fn_in.account_id
        /\ fn_in.txns[i].amount > 10000
        /\ fn_in.clock - fn_in.txns[i].timestamp <= 60}) >= 3
WithdrawalRuleMatches == 10 * fn_in.amount > 8 * fn_in.balance /\ fn_in.amount > 50000

C9_FirstMatchWins ==
    fn_out.rules # NoCall =>
        fn_out.rules =
            IF LimitRuleMatches THEN [is_fraud |-> TRUE, reason |-> ReasonDailyLimit(fn_in.daily_limit)]
            ELSE IF BurstRuleMatches THEN [is_fraud |-> TRUE, reason |-> ReasonMultiple]
            ELSE IF WithdrawalRuleMatches THEN [is_fraud |-> TRUE, reason |-> ReasonLargeWithdrawal]
            ELSE [is_fraud |-> FALSE, reason |-> ReasonNone]

\* All three rules match the arguments and check_fraud has answered with the
\* daily limit.
C9_Witness ==
    /\ fn_out.rules # NoCall
    /\ LimitRuleMatches
    /\ BurstRuleMatches
    /\ WithdrawalRuleMatches
    /\ fn_out.rules.reason = ReasonDailyLimit(DefaultDailyLimit)

\* The recorded transactions before position n that left account a with an
\* amount over 10000 no earlier than the time since.
C10_Qualifying(a, n, since) ==
    {i \in 1..(n - 1) :
        /\ transactions[i].from_account_id = a
        /\ transactions[i].amount > 10000
        /\ transactions[i].timestamp >= since}

\* C10: a transfer within the daily limit gets the verdict "multiple large
\* transactions" exactly when 3 or more recorded transactions from its
\* source with amount > 10000 are at most one hour old at the check. So a
\* recorded transfer with 3 such transactions in the hour before its own
\* timestamp carries the flag, and one that carries it has at least 3
\* earlier large transactions from its source on record.
C10_MultipleLarge ==
    /\ [][\A p \in Procs :
            (Leaves(p, "fraud") /\ req[p].amount <= SourceRow(p).daily_limit) =>
                ((loc'[p].is_fraud /\ loc'[p].reason = ReasonMultiple)
                    <=> Cardinality(C10_Qualifying(loc[p].from_id, Len(transactions) + 1,
                                                   now - 60)) >= 3)]_vars
    /\ [](\A n \in DOMAIN transactions :
            LET t == transactions[n] IN
            t.amount <= accounts[t.from_account_id].daily_limit =>
                /\ Cardinality(C10_Qualifying(t.from_account_id, n, t.timestamp - 60)) >= 3
                        => t.is_flagged /\ t.flag_reason = ReasonMultiple
                /\ t.flag_reason = ReasonMultiple
                        => Cardinality(C10_Qualifying(t.from_account_id, n, 0)) >= 3)

\* Five transfers of 15000 from account 1 within one hour: the third is not
\* flagged, the fifth is.
C10_Witness ==
    /\ Len(transactions) = 5
    /\ \A i \in 1..5 : transactions[i].amount = 15000 /\ transactions[i].from_account_id = 1
    /\ transactions[5].timestamp - transactions[1].timestamp <= 60
    /\ ~transactions[3].is_flagged
    /\ transactions[5].is_flagged
    /\ transactions[5].flag_reason = ReasonMultiple

\* The verdict handler p holds after the step it is taking.
VerdictAfter(p) == [is_fraud |-> loc'[p].is_fraud, reason |-> loc'[p].reason]

\* C11: the verdict transfer() attaches is one the two-layer pipeline
\* (check_fraud_ml) gives on the same arguments for some answer of the
\* scorer: a rule's verdict when a rule fires, else flagged as the scorer
\* says, else clean with the reason "Transaction approved".
C11_PipelineVerdict ==
    [][\A p \in Procs : Leaves(p, "fraud") =>
        \E scorer \in ScorerOutcomes :
            VerdictAfter(p) = CheckFraudMl(req[p].amount, loc[p].from_id, loc[p].from_balance,
                                           SourceRow(p).daily_limit, transactions, now,
                                           scorer)]_vars

\* Handler p answers its request with 200 in this step.
SucceedsNow(p) == pc[p] # "idle" /\ pc'[p] = "idle" /\ resp'[p] = RespOk

\* C12: successful transfers, Transaction records and TRANSFER audit entries
\* correspond one to one. A TRANSFER audit entry is written in the very
\* steps that answer 200, one each; a Transaction is written in the very
\* steps that commit, one each; a request is answered 200 only after its
\* commit and a request that committed is answered next; a failure writes
\* neither. So the records outnumber the audit entries by the requests
\* between their two commits, and when every request has been answered
\* both numbers are the number of transfers that succeeded.
C12_OneToOne ==
    /\ [](Len(transactions) =
            Cardinality(TransferAudits) + Cardinality({p \in Procs : pc[p] = "audit"}))
    /\ []((\A p \in Procs : pc[p] = "idle") => Len(transactions) = Cardinality(TransferAudits))
    /\ [][/\ Cardinality(TransferAudits') - Cardinality(TransferAudits)
                = Cardinality({p \in Procs : SucceedsNow(p)})
           /\ Len(transactions') - Len(transactions)
                = Cardinality({p \in Procs : Leaves(p, "execute")})
           /\ \A p \in Procs :
                /\ SucceedsNow(p) => pc[p] = "audit"
                /\ Leaves(p, "execute") => pc'[p] = "audit"
                /\ (pc'[p] = "audit" /\ pc[p] # "audit") => pc[p] = "execute"
                /\ FailsNow(p) => UNCHANGED <<transactions, audit_logs>>]_vars

\* Three requests have been answered: two succeeded and one was refused;
\* there are two Transaction records and two TRANSFER audit entries.
C12_Witness ==
    /\ started = 3
    /\ \A p \in Procs : pc[p] = "idle"
    /\ \E p \in Procs : resp[p] = RespInsufficient
    /\ Len(transactions) = 2
    /\ Cardinality(TransferAudits) = 2

\* C13: Transaction records and audit entries are write-once. No step of any
\* endpoint (transfer, register, login, KYC upload, account creation, loan
\* application, loan approval) removes a record of either table or changes
\* a field of one: each table keeps every row it has, as it is.
C13_WriteOnce ==
    [][/\ Len(transactions') >= Len(transactions)
       /\ \A i \in DOMAIN transactions : transactions'[i] = transactions[i]
       /\ Len(audit_logs') >= Len(audit_logs)
       /\ \A i \in DOMAIN audit_logs : audit_logs'[i] = audit_logs[i]]_vars

\* A transfer was recorded and audited first; a loan was then applied for and
\* approved, and a second transfer by the same user recorded and audited.
C13_Witness ==
    /\ Len(transactions) = 2
    /\ Len(audit_logs) = 4
    /\ audit_logs[1].action = "TRANSFER"
    /\ audit_logs[2].action = "LOAN_APPLIED"
    /\ audit_logs[3].action = "LOAN_APPROVED"
    /\ audit_logs[4].action = "TRANSFER"
    /\ audit_logs[4].user_id = audit_logs[1].user_id

\* C14: no transfer blocks. A handler inside transfer() always has a next
\* step, whatever the other handler is doing (no deadlock, also between two
\* transfers in opposite directions over one pair of accounts), and every
\* request that was started is answered in the end, with 200 or an error.
C14_NoTransferBlocks ==
    /\ [](\A p \in Procs : pc[p] # "idle" => ENABLED Handler(p))
    /\ \A p \in Procs :
        (pc[p] # "idle") ~> (pc[p] = "idle" /\ resp[p] \in {RespOk} \cup ErrorResponses)

\* Two transfers in opposite directions between accounts 1 and 2 are both
\* about to commit.
C14_Witness ==
    /\ pc[1] = "execute"
    /\ pc[2] = "execute"
    /\ loc[1].from_id # loc[1].to_id
    /\ loc[1].from_id = loc[2].to_id
    /\ loc[1].to_id = loc[2].from_id

\* Why the account with this number cannot be the source of a transfer by
\* this user, in the terms of the specification ("resolved" when it can).
SourceFailure(number, user) ==
    LET a == AccountByNumber(number) IN
    IF a = 0 THEN "AccountNotFound"
    ELSE IF ~accounts[a].is_active THEN "AccountInactive"
    ELSE IF accounts[a].user_id # user THEN "NotOwner"
    ELSE "resolved"

\* Why the account with this number cannot be the destination of a transfer.
DestFailure(number) ==
    LET a == AccountByNumber(number) IN
    IF a = 0 THEN "AccountNotFound"
    ELSE IF ~accounts[a].is_active THEN "AccountInactive"
    ELSE "resolved"

\* The account numbers a request can name.
KnownNumbers == {accounts[a].account_number : a \in DOMAIN accounts} \cup {NoSuchNumber}

\* C15: the failures of account resolution can be told apart. The response
\* to a failed source resolution differs from the response a request failing
\* for another of AccountNotFound, AccountInactive and NotOwner gets, and
\* the response to a failed destination resolution from the response a
\* request failing for the other of AccountNotFound and AccountInactive
\* gets; resolution succeeds when there is no such failure, the destination
\* whoever owns it.
C15_DistinctFailures ==
    [][\A p \in Procs :
        /\ Leaves(p, "from") =>
            /\ pc'[p] = "to" <=> SourceFailure(req[p].from, req[p].user) = "resolved"
            /\ pc'[p] = "idle" =>
                /\ resp'[p] = SourceResponse(req[p].from, req[p].user)
                /\ \A number \in KnownNumbers, user \in Users :
                    SourceFailure(number, user)
                            \notin {"resolved", SourceFailure(req[p].from, req[p].user)}
                        => SourceResponse(number, user) # resp'[p]
        /\ Leaves(p, "to") =>
            /\ pc'[p] = "funds" <=> DestFailure(req[p].to) = "resolved"
            /\ pc'[p] = "idle" =>
                /\ resp'[p] = DestResponse(req[p].to)
                /\ \A number \in KnownNumbers :
                    DestFailure(number) \notin {"resolved", DestFailure(req[p].to)}
                        => DestResponse(number) # resp'[p]]_vars

\* C16: with transfers served one at a time, the commit of a transfer of x
\* between two distinct accounts leaves the source balance x lower and the
\* destination balance x higher than they were, and the Transaction it
\* records, which is the one returned, has type "transfer" and amount x;
\* 2000 from a balance of 10000 to a balance of 1000 leaves 8000 and 3000,
\* not flagged.
C16_ExactTransfer ==
    [][\A p \in Procs : (Leaves(p, "execute") /\ loc[p].from_id # loc[p].to_id) =>
        LET t == transactions'[Len(transactions')] IN
        /\ accounts'[loc[p].from_id].balance = SourceRow(p).balance - req[p].amount
        /\ accounts'[loc[p].to_id].balance = DestRow(p).balance + req[p].amount
        /\ Len(transactions') = Len(transactions) + 1
        /\ t.transaction_type = "transfer"
        /\ t.amount = req[p].amount
        /\ (SourceRow(p).balance = 10000 /\ DestRow(p).balance = 1000 /\ req[p].amount = 2000)
            => /\ accounts'[loc[p].from_id].balance = 8000
               /\ accounts'[loc[p].to_id].balance = 3000
               /\ ~t.is_flagged]_vars

\* 2000 went from account 1, which held 10000, to account 2, which held
\* 1000: they hold 8000 and 3000, and the request was answered 200.
C16_Witness ==
    /\ Len(transactions) = 1
    /\ transactions[1].amount = 2000
    /\ transactions[1].transaction_type = "transfer"
    /\ transactions[1].from_account_id = 1
    /\ transactions[1].to_account_id = 2
    /\ ~transactions[1].is_flagged
    /\ accounts[1].balance = 8000
    /\ accounts[2].balance = 3000
    /\ resp[1] = RespOk

\* C17: the balance of an existing account changes only in the commit of a
\* transfer of which it is the source or the destination. Every step of
\* every endpoint keeps the accounts there are, and changes the balance of
\* one only if it is the commit of a transfer between that account and
\* another.
C17_BalanceFrame ==
    [][\A a \in DOMAIN accounts :
        /\ a \in DOMAIN accounts'
        /\ accounts'[a].balance # accounts[a].balance =>
            \E p \in Procs :
                /\ Leaves(p, "execute")
                /\ pc'[p] = "audit"
                /\ loc[p].from_id # loc[p].to_id
                /\ a \in {loc[p].from_id, loc[p].to_id}]_vars

\* An account was opened with a deposit of 500 and received 200 from account
\* 1, and a KYC document was uploaded: accounts 2 and 3 hold what they held.
C17_Witness ==
    /\ 4 \in DOMAIN accounts
    /\ accounts[4].balance = 700
    /\ accounts[1].balance = 300
    /\ accounts[2].balance = 500
    /\ accounts[3].balance = 500
    /\ Len(transactions) = 1
    /\ \E i \in DOMAIN audit_logs : audit_logs[i].action = "KYC_UPLOADED"

\* The verdict a Transaction record carries.
RecordedVerdict(t) ==
    [is_fraud |-> t.is_flagged, reason |-> IF t.is_flagged THEN t.flag_reason ELSE ReasonNone]

\* The balance of its source before the transfer a Transaction records.
BalanceBefore(t) ==
    IF t.from_account_id = t.to_account_id THEN t.balance_after
    ELSE t.balance_after + t.amount

\* C19: within a transfer the verdict is computed before the mutation. The
\* step that computes it changes no table, finds both balances as the
\* transfer loaded them, and evaluates the rules on the source balance in
\* the store and the transactions on record, this transfer's not among
\* them; the commit comes after it and records that verdict. So every
\* record carries the verdict of the rules on the balance before its
\* transfer and on the records before it.
C19_VerdictBeforeMutation ==
    /\ [][\A p \in Procs :
            /\ Leaves(p, "fraud") =>
                /\ UNCHANGED ledger
                /\ pc'[p] = "execute"
                /\ SourceRow(p).balance = loc[p].from_balance
                /\ DestRow(p).balance = loc[p].to_balance
                /\ VerdictAfter(p) = CheckFraud(req[p].amount, loc[p].from_id,
                                                SourceRow(p).balance, SourceRow(p).daily_limit,
                                                transactions, now)
            /\ (pc'[p] = "execute" /\ pc[p] # "execute") => pc[p] = "fraud"
            /\ Leaves(p, "execute") =>
                /\ loc[p].from_id # loc[p].to_id =>
                    accounts'[loc[p].from_id].balance # SourceRow(p).balance
                /\ RecordedVerdict(transactions'[Len(transactions')])
                        = [is_fraud |-> loc[p].is_fraud,
                           reason |-> IF loc[p].is_fraud THEN loc[p].reason ELSE ReasonNone]]_vars
    /\ [](\A n \in DOMAIN transactions :
            LET t == transactions[n] IN
            RecordedVerdict(t) = CheckFraud(t.amount, t.from_account_id, BalanceBefore(t),
                                            accounts[t.from_account_id].daily_limit,
                                            SubSeq(transactions, 1, n - 1), t.timestamp))

\* 55000 and then three times 15000 left account 1, which held 100000: the
\* 55000 was not flagged although it is more than 80% of the 45000 it left,
\* and the fourth transfer was flagged for the three before it.
C19_Witness ==
    /\ Len(transactions) = 4
    /\ transactions[1].amount = 55000
    /\ transactions[1].balance_after = 45000
    /\ ~transactions[1].is_flagged
    /\ ~transactions[3].is_flagged
    /\ transactions[4].is_flagged
    /\ transactions[4].flag_reason = ReasonMultiple
    /\ transactions[4].balance_after = 0

\* C20: the rule stage of check_fraud_ml agrees with check_fraud. On
\* arguments on which check_fraud flags, check_fraud_ml flags with the same
\* reason whatever the scorer answers; so a transfer of more than 80% of the
\* balance and more than 50000 that the daily-limit and burst rules let pass
\* is flagged by both as a large withdrawal.
C20_RuleStageAgrees ==
    (fn_out.rules # NoCall /\ fn_out.ml # NoCall) =>
        /\ fn_out.rules.is_fraud => fn_out.ml = fn_out.rules
        /\ (WithdrawalRuleMatches /\ ~LimitRuleMatches /\ ~BurstRuleMatches) =>
            /\ fn_out.rules = [is_fraud |-> TRUE, reason |-> ReasonLargeWithdrawal]
            /\ fn_out.ml = [is_fraud |-> TRUE, reason |-> ReasonLargeWithdrawal]

\* The training vectors the store holds: of every account, up to 100 of its
\* transactions.
HistoricalSamples == Cardinality(TrainingData(accounts, transactions))

\* C21: the anomaly scorer goes from Untrained to Trained and never back. A
\* score request on an Untrained scorer first trains it, on synthetic data
\* when the store holds fewer than 10 historical samples, so that whatever
\* the store holds the scorer is Trained once a score request has been
\* served; a Trained scorer stays Trained and is not fitted again by later
\* score requests.
C21_UntrainedToTrained ==
    /\ [](fn_out.predict # NoCall => fraud_detector.is_trained)
    /\ [][(~fraud_detector.is_trained /\ fraud_detector'.is_trained /\ HistoricalSamples < 10)
            => fraud_detector'.model.kind = "synthetic"]_vars
    /\ [][fraud_detector.is_trained => fraud_detector' = fraud_detector]_vars

\* The row a handler adds to table transactions in the step under way.
PersistedNow(p) == transactions'[Len(transactions')]

\* C22 as claimed: the Transaction of a successful transfer has is_flagged
\* and flag_reason equal to the flag and the reason of the verdict, and
\* balance_after equal to the source's balance before the transfer minus the
\* amount, and refers to the two accounts the request resolved to.
C22_Original ==
    [][\A p \in Procs : Leaves(p, "execute") =>
        LET source == AccountByNumber(req[p].from)
            dest == AccountByNumber(req[p].to) IN
        /\ Len(transactions') = Len(transactions) + 1
        /\ PersistedNow(p).is_flagged = loc[p].is_fraud
        /\ PersistedNow(p).flag_reason = loc[p].reason
        /\ PersistedNow(p).balance_after = accounts[source].balance - req[p].amount
        /\ PersistedNow(p).from_account_id = source
        /\ PersistedNow(p).to_account_id = dest]_vars

\* C22: the Transaction of a successful transfer carries the verdict and the
\* resulting balance. is_flagged is the verdict's flag; flag_reason is the
\* verdict's reason when the verdict flags and null otherwise; balance_after
\* is the balance of the source as this transfer commits it, which is the
\* balance before the transfer minus the amount when the destination is
\* another account and the balance before the transfer when source and
\* destination are one account; the references are the two accounts the
\* request resolved to.
C22_PersistedTransaction ==
    [][\A p \in Procs : Leaves(p, "execute") =>
        LET source == AccountByNumber(req[p].from)
            dest == AccountByNumber(req[p].to) IN
        /\ Len(transactions') = Len(transactions) + 1
        /\ PersistedNow(p).is_flagged = loc[p].is_fraud
        /\ PersistedNow(p).flag_reason = IF loc[p].is_fraud THEN loc[p].reason ELSE None
        /\ PersistedNow(p).balance_after = accounts'[source].balance
        /\ PersistedNow(p).balance_after =
                IF source = dest THEN accounts[source].balance
                ELSE accounts[source].balance - req[p].amount
        /\ PersistedNow(p).from_account_id = source
        /\ PersistedNow(p).to_account_id = dest]_vars

\* A flagged and a clean transfer between two accounts have both been
\* recorded: 60000 out of 70000, then 100 out of the remaining 10000.
C22_Witness ==
    /\ Len(transactions) = 2
    /\ pc[1] = "idle"
    /\ resp[1] = RespOk
    /\ transactions[1].is_flagged
    /\ transactions[1].flag_reason = ReasonLargeWithdrawal
    /\ transactions[1].balance_after = 10000
    /\ ~transactions[2].is_flagged
    /\ transactions[2].flag_reason = None
    /\ transactions[2].balance_after = 9900
    /\ transactions[2].from_account_id = 1
    /\ transactions[2].to_account_id = 3

\* The request of handler p names one account as source and destination,
\* the account is the actor's, active, and holds the amount.
SelfTransfer(p) ==
    LET a == AccountByNumber(req[p].from) IN
    /\ pc[p] # "idle"
    /\ req[p].to = req[p].from
    /\ a # 0
    /\ accounts[a].user_id = req[p].user
    /\ accounts[a].is_active
    /\ accounts[a].balance >= req[p].amount

\* C23: a transfer from an account to itself (the actor's, active, holding
\* the amount) is accepted. No step of it ends in an error or changes a
\* balance; its commit adds one Transaction whose source and destination are
\* that account and whose balance_after is the unchanged balance; it ends
\* with 200 and one TRANSFER audit entry.
C23_SelfTransferAccepted ==
    [][\A p \in Procs : SelfTransfer(p) =>
        LET a == AccountByNumber(req[p].from) IN
        /\ ~FailsNow(p)
        /\ accounts' = accounts
        /\ IF Leaves(p, "execute")
           THEN /\ Len(transactions') = Len(transactions) + 1
                /\ SubSeq(transactions', 1, Len(transactions)) = transactions
                /\ transactions'[Len(transactions')].from_account_id = a
                /\ transactions'[Len(transactions')].to_account_id = a
                /\ transactions'[Len(transactions')].amount = req[p].amount
                /\ transactions'[Len(transactions')].balance_after = accounts[a].balance
           ELSE transactions' = transactions
        /\ IF pc'[p] = "idle"
           THEN /\ resp'[p] = RespOk
                /\ pc[p] = "audit"
                /\ Len(audit_logs') = Len(audit_logs) + 1
                /\ SubSeq(audit_logs', 1, Len(audit_logs)) = audit_logs
                /\ audit_logs'[Len(audit_logs')].action = "TRANSFER"
           ELSE audit_logs' = audit_logs]_vars

\* A transfer of 60000 from account 1, which holds 70000, to itself has been
\* answered with 200.
C23_Witness ==
    /\ pc[1] = "idle"
    /\ resp[1] = RespOk
    /\ Len(transactions) = 1
    /\ Len(audit_logs) = 1
    /\ transactions[1].from_account_id = 1
    /\ transactions[1].to_account_id = 1
    /\ transactions[1].amount = 60000
    /\ transactions[1].balance_after = 70000
    /\ accounts[1].balance = 70000

====
